---- MODULE Spec2Model ----
(***************************************************************************)
(* A model of the random-variable algebra and event-probability engine of  *)
(* hall: discrete distributions (hall/discrete.py), wrapped into random    *)
(* variables with an affine state (hall/_core.py), compared into lazy      *)
(* events (hall/_event.py) and queried through P, E, Var (hall/stats.py).  *)
(*                                                                         *)
(* Numbers.  mpmath's mpf / mpmath.fraction values are modelled as exact   *)
(* rationals <<num, den>> in lowest terms with den > 0; Python ints are    *)
(* TLA+ integers.  Rounding of the binary floating point backend is not    *)
(* modelled: every arithmetic step is exact.                               *)
(*                                                                         *)
(* Names.  hall/discrete.py calls the attributes of a distribution         *)
(* support and discrete, hall/_core.py reads them as __support__ and       *)
(* __discrete__: they are taken to be the same attributes.  The support is *)
(* the Interval of hall/analysis.py, whose comparisons and membership test *)
(* are those of the Interval of hall/_types.py.                            *)
(***************************************************************************)
EXTENDS Integers, Sequences, FiniteSets, TLC

VARIABLES D, X, ideal, nops, op, arg, ev, cmp, res, call, heap

vars == <<D, X, ideal, nops, op, arg, ev, cmp, res, call, heap>>

---------------------------------------------------------------------------
(* Bounds of the model *)

\* largest n of Binomial(n, p)
MaxN == 2
\* Uniform(a, b) endpoints range over -MaxU .. MaxU
MaxU == 1
\* probabilities p (distribution parameter, argument of G) are k / ProbDen
ProbDen == 2
\* number of arithmetic operators applied to the wrapped variable
MaxOps == 2
\* numeric operands of the operators range over -MaxC .. MaxC
MaxC == 2

\* mpmath.mp.eps is 2^-52 at the default precision; the model keeps a
\* power of two far below every gap between the rationals it reaches
EpsDen == 1024

---------------------------------------------------------------------------
(* The numeric tower *)

Abs(i) == IF i < 0 THEN -i ELSE i

RECURSIVE Gcd(_, _)
Gcd(i, j) == IF j = 0 THEN i ELSE Gcd(j, i % j)

\* the rational n / d (d # 0) in lowest terms
Rat(n, d) ==
    LET s == IF d < 0 THEN -1 ELSE 1
        g == Gcd(Abs(n), Abs(d))
    IN  <<(s * n) \div g, (s * d) \div g>>

Q(i) == <<i, 1>>

RPlus(x, y)  == Rat(x[1] * y[2] + y[1] * x[2], x[2] * y[2])
RNeg(x)      == <<-x[1], x[2]>>
RMinus(x, y) == RPlus(x, RNeg(y))
RTimes(x, y) == Rat(x[1] * y[1], x[2] * y[2])
RDiv(x, y)   == Rat(x[1] * y[2], x[2] * y[1])
RLt(x, y)    == x[1] * y[2] < y[1] * x[2]
RLe(x, y)    == x[1] * y[2] <= y[1] * x[2]

RECURSIVE RPow(_, _)
RPow(x, k) == IF k = 0 THEN Q(1) ELSE RTimes(x, RPow(x, k - 1))

\* mpmath.fraction(p, q): the quotient of two numbers
fraction(p, q) == RDiv(p, q)

\* mpmath.mp.eps
eps == Rat(1, EpsDen)

\* round(x) of Python: nearest integer, ties to the even one
round(x) ==
    LET fl == x[1] \div x[2]
        r2 == 2 * (x[1] - fl * x[2])
    IN  IF r2 < x[2] THEN fl
        ELSE IF r2 > x[2] THEN fl + 1
        ELSE IF fl % 2 = 0 THEN fl ELSE fl + 1

\* mpmath.binomial(n, k) for 0 <= k <= n
RECURSIVE binomial(_, _)
binomial(n, k) ==
    IF k = 0 \/ k = n THEN 1 ELSE binomial(n - 1, k - 1) + binomial(n - 1, k)

\* is_probability: 0 <= x <= 1
is_probability(x) == RLe(Q(0), x) /\ RLe(x, Q(1))

\* results of calls: a value, or the exception the call raised
Ok(v)    == [err |-> "none", v |-> v]
Raise(e) == [err |-> e, v |-> Q(0)]

---------------------------------------------------------------------------
(* Interval (analysis.py; _types.py holds the same comparisons) *)

\* Interval(a, b): endpoints swapped into order; int tells whether both
\* endpoints are of IntType (is_discrete)
Interval(a, b, int) ==
    IF RLt(b, a) THEN [a |-> b, b |-> a, int |-> int]
                 ELSE [a |-> a, b |-> b, int |-> int]

\* x in I
Interval_contains(I, x) == RLe(I.a, x) /\ RLe(x, I.b)

\* I < x, also what Python evaluates for  x > I
\* (the clause on the imaginary parts is 0 < 0 for real numbers)
Interval_lt(I, x) == RLt(I.b, x)

\* I > x, also what Python evaluates for  x < I : the second clause
\* compares the real part of a with the imaginary part of x, which is 0
Interval_gt(I, x) == RLt(x, I.a) \/ RLt(Q(0), I.a)

\* I.d: the step between two consecutive values
Interval_d(I) == IF I.int THEN Q(1) ELSE eps

\* I.is_bounded: the modelled endpoints are all finite
Interval_is_bounded(I) == TRUE

\* _cmax and _cmin of two real numbers
cmax(x, y) == IF RLt(x, y) THEN y ELSE x
cmin(x, y) == RNeg(cmax(RNeg(x), RNeg(y)))

\* a faulty isdisjoint: intervals that share an endpoint count as disjoint
isdisjoint_touching(I, J) == RLe(J.b, I.a) \/ RLe(I.b, J.a)

\* I.isdisjoint(J) for real intervals (all imaginary parts are 0)
Interval_isdisjoint(I, J) == RLt(J.b, I.a) \/ RLt(I.b, J.a)

\* I & J: None, or the interval of the greater lower and the lesser upper
\* endpoint (None is <<>>, an interval K is <<K>>)
Interval_and(I, J) ==
    IF Interval_isdisjoint(I, J) THEN <<>>
    ELSE <<Interval(cmax(I.a, J.a), cmin(I.b, J.b), I.int /\ J.int)>>

---------------------------------------------------------------------------
(* Discrete distributions (discrete.py) *)

Binomial(n, p)  == [kind |-> "Binomial", n |-> n, p |-> p, a |-> 0, b |-> n]
Bernoulli(p)    == [kind |-> "Bernoulli", n |-> 1, p |-> p, a |-> 0, b |-> 1]
Uniform(a, b)   == [kind |-> "Uniform", n |-> b - a + 1, p |-> Q(0),
                    a |-> a, b |-> b]

IsBinomial(d) == d.kind \in {"Binomial", "Bernoulli"}

\* Binomial.support = Interval(0, n), Uniform.support = Interval(a, b)
Distribution_support(d) ==
    IF IsBinomial(d) THEN Interval(Q(0), Q(d.n), TRUE)
                     ELSE Interval(Q(d.a), Q(d.b), TRUE)

\* Binomial.q
Binomial_q(d) == RMinus(Q(1), d.p)

\* Uniform.mean: floor division when n is even, the exact half otherwise
Uniform_mean(d) ==
    IF d.n % 2 = 0 THEN Q((d.a + d.b) \div 2)
                   ELSE fraction(Q(d.a + d.b), Q(2))

\* Distribution.mean
Distribution_mean(d) ==
    IF IsBinomial(d) THEN RTimes(Q(d.n), d.p) ELSE Uniform_mean(d)

\* Distribution.variance
Distribution_variance(d) ==
    IF IsBinomial(d) THEN RTimes(RTimes(Q(d.n), d.p), Binomial_q(d))
                     ELSE fraction(Q(d.n * d.n - 1), Q(12))

\* Binomial.pmf for x not below the support (its callers f, F and cmf_inv
\* never pass a smaller x, for which it raises)
Binomial_pmf(d, x) ==
    IF Interval_lt(Distribution_support(d), Q(x)) THEN Q(0)
    ELSE RTimes(RTimes(Q(binomial(d.n, x)), RPow(d.p, x)),
                RPow(Binomial_q(d), d.n - x))

\* mpmath.betainc(n - x, x + 1, 0, q, regularized=True): the regularized
\* incomplete beta function I_q(n - x, x + 1), which is the sum of the
\* binomial masses at 0 .. x
RECURSIVE betainc(_, _)
betainc(d, x) ==
    IF x < 0 THEN Q(0) ELSE RPlus(betainc(d, x - 1), Binomial_pmf(d, x))

\* Binomial.cmf for x not below the support
Binomial_cmf(d, x) ==
    IF Interval_lt(Distribution_support(d), Q(x)) THEN Q(1)
    ELSE betainc(d, x)

\* Uniform.pmf
Uniform_pmf(d, x) ==
    IF Interval_contains(Distribution_support(d), Q(x))
    THEN fraction(Q(1), Q(d.n)) ELSE Q(0)

\* Uniform.cmf
Uniform_cmf(d, x) ==
    IF d.a <= x /\ x <= d.b THEN RDiv(Q(x - d.a + 1), Q(d.n)) ELSE Q(0)

pmf(d, x) == IF IsBinomial(d) THEN Binomial_pmf(d, x) ELSE Uniform_pmf(d, x)
cmf(d, x) == IF IsBinomial(d) THEN Binomial_cmf(d, x) ELSE Uniform_cmf(d, x)

\* Distribution.f at an integer x
Distribution_f(d, x) ==
    IF ~Interval_contains(Distribution_support(d), Q(x)) THEN Q(0)
    ELSE pmf(d, x)

\* Distribution.F at an integer x:  x < support  is  support > x
Distribution_F(d, x) ==
    IF Interval_gt(Distribution_support(d), Q(x)) THEN Q(0)
    ELSE IF Interval_lt(Distribution_support(d), Q(x)) THEN Q(1)
    ELSE cmf(d, x)

\* the loop of Distribution.cmf_inv from x on, x_prev being the last point
\* whose cmf did not exceed y
RECURSIVE cmf_inv_loop(_, _, _, _)
cmf_inv_loop(d, x, x_prev, y) ==
    IF x > Distribution_support(d).b[1] THEN x_prev
    ELSE IF RLt(y, cmf(d, x)) THEN x_prev
    ELSE cmf_inv_loop(d, x + 1, x, y)

\* Bernoulli.cmf_inv
Bernoulli_cmf_inv(d, y) == IF RLe(y, RMinus(Q(1), d.p)) THEN 0 ELSE 1

\* Distribution.cmf_inv (Bernoulli overrides it)
cmf_inv(d, y) ==
    IF d.kind = "Bernoulli" THEN Bernoulli_cmf_inv(d, y)
    ELSE cmf_inv_loop(d, Distribution_support(d).a[1], 0, y)

\* Distribution.G
Distribution_G(d, y) ==
    IF ~(RLe(Q(0), y) /\ RLe(y, Q(1))) THEN Raise("TypeError")
    ELSE IF ~Interval_is_bounded(Distribution_support(d))
         THEN Raise("NotImplementedError")
    ELSE Ok(Q(cmf_inv(d, y)))

---------------------------------------------------------------------------
(* Construction (discrete.py, continuous.py).  An argument is a Python int *)
(* or a float, with its value; a constructor returns the object or raises. *)

IntArg(k)   == [type |-> "int", v |-> Q(k)]
FloatArg(q) == [type |-> "float", v |-> q]

\* isinstance(x, numbers.Integral)
is_integral(x) == x.type = "int"

\* is_probability of _types.py: a real number in [0, 1]
is_probability_arg(x) == RLe(Q(0), x.v) /\ RLe(x.v, Q(1))

\* a faulty Binomial.__init__: the sign of n is not checked
Binomial_init_unsigned(n, p) ==
    IF ~is_integral(n) THEN Raise("TypeError")
    ELSE IF ~is_probability_arg(p) THEN Raise("ValueError")
    ELSE Ok(Binomial(n.v[1], p.v))

\* Binomial.__init__
Binomial_init(n, p) ==
    IF ~is_integral(n) THEN Raise("TypeError")
    ELSE IF RLt(n.v, Q(0)) THEN Raise("ValueError")
    ELSE IF ~is_probability_arg(p) THEN Raise("ValueError")
    ELSE Ok(Binomial(n.v[1], p.v))

\* Bernoulli.__init__: Binomial.__init__(1, p)
Bernoulli_init(p) ==
    IF Binomial_init(IntArg(1), p).err # "none"
    THEN Binomial_init(IntArg(1), p)
    ELSE Ok(Bernoulli(p.v))

\* Uniform.__init__
Uniform_init(a, b) ==
    IF ~is_integral(a) THEN Raise("TypeError")
    ELSE IF ~is_integral(b) THEN Raise("TypeError")
    ELSE IF RLe(b.v, a.v) THEN Raise("ValueError")
    ELSE Ok(Uniform(a.v[1], b.v[1]))

\* Normal(mu, sigma), a continuous distribution
Normal(mu, sigma) == [kind |-> "Normal", mu |-> mu, sigma |-> sigma]

\* Normal.__init__
Normal_init(mu, sigma) ==
    IF RLt(sigma.v, Q(0)) THEN Raise("ValueError")
    ELSE Ok(Normal(mu.v, sigma.v))

---------------------------------------------------------------------------
(* Convolution (analysis.py) of two discrete functions, here the mass      *)
(* functions f and g of two distributions. *)

\* Interval.__add__
Interval_add(I, J) ==
    Interval(RPlus(I.a, J.a), RPlus(I.b, J.b), I.int /\ J.int)

\* dres(m) of convolve: f.f(n - m) * g.f(m)
dres(f, g, n, m) == RTimes(Distribution_f(f, n - m), Distribution_f(g, m))

\* mpmath.nsum(dres, [a, b]): the sum over the integers a..b, 0 when b < a
RECURSIVE nsum(_, _, _, _, _)
nsum(f, g, n, a, b) ==
    IF b < a THEN Q(0)
    ELSE RPlus(dres(f, g, n, a), nsum(f, g, n, a + 1, b))

\* res(n) of convolve, with its clipped summation range
res_clipped(f, g, n) ==
    LET fa == Distribution_support(f).a[1]
        fb == Distribution_support(f).b[1]
        ga == Distribution_support(g).a[1]
        gb == Distribution_support(g).b[1]
        a  == IF n - ga > fb THEN fb ELSE ga
        b  == IF n - gb < fa THEN fa ELSE gb
    IN  nsum(f, g, n, a, b)

\* convolve(f, g): the support of the result and its value at n
convolve(f, g, n) ==
    [support |-> Interval_add(Distribution_support(f),
                              Distribution_support(g)),
     value   |-> res_clipped(f, g, n)]

---------------------------------------------------------------------------
(* Random variables (_core.py).  Every variable of a run wraps the one     *)
(* distribution D; a variable is its affine state.  RandomVar(D) is the    *)
(* record with mapped = FALSE, MappedRandomVar(RandomVar(D), add, mul,     *)
(* div) the one with mapped = TRUE.                                        *)

RandomVar == [mapped |-> FALSE, add |-> Q(0), mul |-> Q(1), div |-> Q(1)]

MappedRandomVar(add, mul, div) ==
    [mapped |-> TRUE, add |-> add, mul |-> mul, div |-> div]

\* operands of the operators: a number, another random variable, or an
\* object that is no number
Num(v)   == [tag |-> "num", v |-> v]
OtherRV  == [tag |-> "rv", v |-> Q(0)]
NoNumber == [tag |-> "str", v |-> Q(0)]

\* is_number
is_number(other) == other.tag = "num"

\* RandomVar._as_mapped: only the keyword given is passed on
RandomVar_as_mapped(kw, c) ==
    MappedRandomVar(IF kw = "add" THEN c ELSE Q(0),
                    IF kw = "mul" THEN c ELSE Q(1),
                    IF kw = "div" THEN c ELSE Q(1))

\* a faulty _as_mapped: a multiplication that leaves the addend unscaled
as_mapped_unscaled_addend(x, kw, c) ==
    MappedRandomVar(
        IF kw = "add" THEN RPlus(x.add, c)
        ELSE IF kw = "mul" THEN x.add
        ELSE RDiv(x.add, c),
        IF kw = "mul" THEN RTimes(x.mul, c) ELSE x.mul,
        IF kw = "div" THEN c ELSE x.div)

\* MappedRandomVar._as_mapped: add accumulates, mul scales add and mul,
\* div divides add and replaces div
MappedRandomVar_as_mapped(x, kw, c) ==
    MappedRandomVar(
        IF kw = "add" THEN RPlus(x.add, c)
        ELSE IF kw = "mul" THEN RTimes(x.add, c)
        ELSE RDiv(x.add, c),
        IF kw = "mul" THEN RTimes(x.mul, c) ELSE x.mul,
        IF kw = "div" THEN c ELSE x.div)

as_mapped(x, kw, c) ==
    IF x.mapped THEN MappedRandomVar_as_mapped(x, kw, c)
                ELSE RandomVar_as_mapped(kw, c)

\* MappedRandomVar._apply
apply(x, v) == RPlus(RTimes(v, fraction(x.mul, x.div)), x.add)

\* MappedRandomVar._unapply on a discrete variable: rounded to an integer
unapply(x, y) == round(fraction(RTimes(RMinus(y, x.add), x.div), x.mul))

\* __discrete__ of a variable is that of its distribution: False for the
\* continuous ones (DistributionC), True for the others
discrete(d, x) == d.kind # "Normal"

\* a faulty __support__: the mapped endpoints are kept in the order of the
\* endpoints they come from
support_unordered(d, x) ==
    IF x.mapped
    THEN [a |-> apply(x, Distribution_support(d).a),
          b |-> apply(x, Distribution_support(d).b), int |-> FALSE]
    ELSE Distribution_support(d)

\* __support__
support(d, x) ==
    IF x.mapped
    THEN Interval(apply(x, Distribution_support(d).a),
                  apply(x, Distribution_support(d).b), FALSE)
    ELSE Distribution_support(d)

\* x in X
RandomVar_contains(d, x, v) == Interval_contains(support(d, x), v)

\* mean
mean(d, x) ==
    IF x.mapped THEN apply(x, Distribution_mean(d)) ELSE Distribution_mean(d)

\* variance: MappedRandomVar scales by (add / div) squared
variance(d, x) ==
    IF x.mapped
    THEN RTimes(Distribution_variance(d),
                RTimes(fraction(x.add, x.div), fraction(x.add, x.div)))
    ELSE Distribution_variance(d)

\* f: RandomVar.f hands x to the distribution, which takes integers only
RandomVar_f(d, x, v) ==
    IF x.mapped THEN Ok(Distribution_f(d, unapply(x, v)))
    ELSE IF v[2] = 1 THEN Ok(Distribution_f(d, v[1]))
    ELSE Raise("TypeError")

\* F
RandomVar_F(d, x, v) ==
    IF x.mapped THEN Ok(Distribution_F(d, unapply(x, v)))
    ELSE IF v[2] = 1 THEN Ok(Distribution_F(d, v[1]))
    ELSE Raise("TypeError")

\* G
RandomVar_G(d, x, y) ==
    IF x.mapped /\ Distribution_G(d, y).err = "none"
    THEN Ok(apply(x, Distribution_G(d, y).v))
    ELSE Distribution_G(d, y)

---------------------------------------------------------------------------
(* Events (_event.py).  An optional number is <<>> (None) or <<v>>. *)

None    == <<>>
Some(v) == <<v>>

NoEvent ==
    [type |-> "none", X |-> RandomVar, x |-> None, a |-> None, b |-> None,
     inv |-> FALSE]

\* EventEq(X, x, _inv)
EventEq(x, v, inv) ==
    [type |-> "eq", X |-> x, x |-> Some(v), a |-> None, b |-> None,
     inv |-> inv]

\* EventInterval(X, a, b, _inv), with at least one bound
EventInterval(x, a, b, inv) ==
    [type |-> "interval", X |-> x, x |-> None, a |-> a, b |-> b, inv |-> inv]

\* results of the operators: an event, a variable, NotImplemented or the
\* exception raised
Built(e)       == [tag |-> "event", e |-> e, X |-> RandomVar]
Mapped(x)      == [tag |-> "rv", e |-> NoEvent, X |-> x]
NotImplemented == [tag |-> "NotImplemented", e |-> NoEvent, X |-> RandomVar]
TypeError      == [tag |-> "TypeError", e |-> NoEvent, X |-> RandomVar]

\* a faulty EventEq.p: the inverted flag is ignored
EventEq_p_ignores_inv(d, e) ==
    IF ~discrete(d, e.X) THEN Ok(Q(0)) ELSE RandomVar_f(d, e.X, e.x[1])

\* EventEq.p
EventEq_p(d, e) ==
    IF ~discrete(d, e.X) THEN Ok(Q(0))
    ELSE IF RandomVar_f(d, e.X, e.x[1]).err # "none"
         THEN RandomVar_f(d, e.X, e.x[1])
    ELSE IF e.inv THEN Ok(RMinus(Q(1), RandomVar_f(d, e.X, e.x[1]).v))
    ELSE RandomVar_f(d, e.X, e.x[1])

\* a faulty EventInterval.p: the value is returned unchecked
EventInterval_p_unchecked(d, e) ==
    LET Fb == IF e.b = None THEN Ok(Q(1)) ELSE RandomVar_F(d, e.X, e.b[1])
        Fa == IF e.a = None THEN Ok(Q(0)) ELSE RandomVar_F(d, e.X, e.a[1])
        p0 == RMinus(Fb.v, Fa.v)
    IN  IF Fb.err # "none" THEN Fb
        ELSE IF Fa.err # "none" THEN Fa
        ELSE Ok(IF e.inv THEN RMinus(Q(1), p0) ELSE p0)

\* EventInterval.p: F(b) or 1, minus F(a), complemented when inverted, and
\* asserted to be a probability
EventInterval_p(d, e) ==
    LET Fb == IF e.b = None THEN Ok(Q(1)) ELSE RandomVar_F(d, e.X, e.b[1])
        Fa == IF e.a = None THEN Ok(Q(0)) ELSE RandomVar_F(d, e.X, e.a[1])
        p0 == RMinus(Fb.v, Fa.v)
        p  == IF e.inv THEN RMinus(Q(1), p0) ELSE p0
    IN  IF Fb.err # "none" THEN Fb
        ELSE IF Fa.err # "none" THEN Fa
        ELSE IF ~is_probability(p) THEN Raise("AssertionError")
        ELSE Ok(p)

\* Event.p
Event_p(d, e) ==
    IF e.type = "eq" THEN EventEq_p(d, e) ELSE EventInterval_p(d, e)

\* a faulty __bool__: the sample is compared with <=
Event_bool_inclusive(d, e, u) ==
    IF Event_p(d, e).err # "none" THEN Event_p(d, e)
    ELSE Ok(RLe(u, Event_p(d, e).v))

\* Event.__bool__, u being the sample mpmath.rand() drew: u < p, or the
\* exception p raised
Event_bool(d, e, u) ==
    IF Event_p(d, e).err # "none" THEN Event_p(d, e)
    ELSE Ok(RLt(u, Event_p(d, e).v))

\* Event.__int__: int(bool(self)), int(True) being 1 and int(False) 0
Event_int(d, e, u) ==
    IF Event_bool(d, e, u).err # "none" THEN Event_bool(d, e, u)
    ELSE Ok(IF Event_bool(d, e, u).v THEN Q(1) ELSE Q(0))

\* Event.__float__: float(self.p)
Event_float(d, e) == Event_p(d, e)

ValueError == [tag |-> "ValueError", e |-> NoEvent, X |-> RandomVar]

\* a faulty __init__: an event without bounds is accepted
EventInterval_init_unbounded(x, a, b, inv) ==
    Built(EventInterval(x, a, b, inv))

\* EventInterval.__init__: a or b is required
EventInterval_init(x, a, b, inv) ==
    IF a = None /\ b = None THEN ValueError
    ELSE Built(EventInterval(x, a, b, inv))

\* a faulty __invert__: the flag of a one-sided event is flipped as well
EventInterval_invert_flipping(e) ==
    IF e.a = None THEN EventInterval(e.X, e.b, None, ~e.inv)
    ELSE IF e.b = None THEN EventInterval(e.X, None, e.a, ~e.inv)
    ELSE EventInterval(e.X, e.a, e.b, ~e.inv)

\* EventInterval.__invert__: a one-sided event swaps its bound to the
\* other side, a two-sided one flips its flag
EventInterval_invert(e) ==
    IF e.a = None THEN EventInterval(e.X, e.b, None, e.inv)
    ELSE IF e.b = None THEN EventInterval(e.X, None, e.a, e.inv)
    ELSE EventInterval(e.X, e.a, e.b, ~e.inv)

\* EventEq.__invert__
EventEq_invert(e) == EventEq(e.X, e.x[1], ~e.inv)

\* ~event
Event_invert(e) ==
    IF e.type = "eq" THEN EventEq_invert(e) ELSE EventInterval_invert(e)

\* the right operand of A | B: another event
OtherEvent == [tag |-> "event", v |-> Q(0)]

\* Event.__or__
Event_or(e, other) ==
    IF other.tag = "event" THEN Built(e) ELSE NotImplemented

---------------------------------------------------------------------------
(* The operators of BaseRandomVar (_core.py) *)

RandomVar_add(x, other) ==
    IF is_number(other) THEN Mapped(as_mapped(x, "add", other.v))
    ELSE NotImplemented

RandomVar_sub(x, other) ==
    IF is_number(other) THEN Mapped(as_mapped(x, "add", RNeg(other.v)))
    ELSE NotImplemented

RandomVar_mul(x, other) ==
    IF is_number(other) THEN Mapped(as_mapped(x, "mul", other.v))
    ELSE NotImplemented

RandomVar_truediv(x, other) ==
    IF is_number(other) THEN Mapped(as_mapped(x, "div", other.v))
    ELSE NotImplemented

RandomVar_neg(x) == Mapped(as_mapped(x, "mul", Q(-1)))

RandomVar_radd(x, other) == RandomVar_add(x, other)
RandomVar_rsub(x, other) == RandomVar_add(RandomVar_neg(x).X, other)
RandomVar_rmul(x, other) == RandomVar_mul(x, other)

\* Python's binary operator protocol: the left operand's method, then the
\* right operand's reflected one, then TypeError
binary_op(direct, reflected) ==
    IF direct.tag # "NotImplemented" THEN direct
    ELSE IF reflected.tag # "NotImplemented" THEN reflected
    ELSE TypeError

\* x - other: a number has no __rsub__ for a variable, another variable
\* answers with its __rsub__, any other object with nothing
minus(x, other) ==
    binary_op(RandomVar_sub(x, other),
              IF other.tag = "rv" THEN RandomVar_rsub(RandomVar, OtherRV)
              ELSE NotImplemented)

\* X == other
RandomVar_eq(x, other) ==
    IF other.tag = "rv"
    THEN IF minus(x, other).tag = "rv"
         THEN Built(EventEq(minus(x, other).X, Q(0), FALSE))
         ELSE minus(x, other)
    ELSE Built(EventEq(x, other.v, FALSE))

\* X != other
RandomVar_ne(x, other) ==
    IF other.tag = "rv"
    THEN IF minus(x, other).tag = "rv"
         THEN Built(EventEq(minus(x, other).X, Q(0), TRUE))
         ELSE minus(x, other)
    ELSE Built(EventEq(x, other.v, TRUE))

\* X < other: the bound is moved down by the step d of the support
RandomVar_lt(d, x, other) ==
    IF ~is_number(other) THEN TypeError
    ELSE Built(EventInterval(x, None,
               Some(RMinus(other.v, Interval_d(support(d, x)))), FALSE))

\* X <= other
RandomVar_le(x, other) ==
    IF ~is_number(other) THEN TypeError
    ELSE Built(EventInterval(x, None, Some(other.v), FALSE))

\* a faulty X > other: the bound moved up by one
RandomVar_gt_shifted(x, other) ==
    IF ~is_number(other) THEN TypeError
    ELSE Built(EventInterval(x, Some(RPlus(other.v, Q(1))), None, FALSE))

\* X > other
RandomVar_gt(x, other) ==
    IF ~is_number(other) THEN TypeError
    ELSE Built(EventInterval(x, Some(other.v), None, FALSE))

\* a faulty X >= other: the operand is not checked to be a number
RandomVar_ge_unchecked(d, x, other) ==
    IF discrete(d, x)
    THEN Built(EventInterval(x, Some(RPlus(other.v, Q(1))), None, FALSE))
    ELSE Built(EventInterval(x, Some(other.v), None, FALSE))

\* X >= other
RandomVar_ge(d, x, other) ==
    IF ~is_number(other) THEN TypeError
    ELSE IF discrete(d, x)
         THEN Built(EventInterval(x, Some(RPlus(other.v, Q(1))), None, FALSE))
    ELSE Built(EventInterval(x, Some(other.v), None, FALSE))

---------------------------------------------------------------------------
(* The state machine.  D is the distribution built first, X the variable   *)
(* the caller holds (X = ~D, then X = X + c, ...), ev the event the last   *)
(* comparison built and cmp that comparison, op and arg the last call and  *)
(* its operand, res the value or exception of the last call.  ideal        *)
(* is the affine map m * x + b that the operators applied so far denote,   *)
(* composed step by step (div tells whether a division was among them).    *)
(* call is the last call of a function of hall.analysis or of a            *)
(* constructor, with its arguments and what it returned beside res.        *)
(* heap is the sequence of the random variable objects allocated so far,   *)
(* an object's identity being its index: it is kept where the identity of  *)
(* the objects matters, and empty where a variable is just its value.      *)

NoCall == [fn |-> "none"]

NoHeap == <<>>

Probs == {Rat(k, ProbDen) : k \in 0..ProbDen}

Distributions ==
    {Binomial(n, p) : n \in 0..MaxN, p \in Probs}
    \cup {Bernoulli(p) : p \in Probs}
    \cup {Uniform(a, b) : a \in -MaxU..MaxU, b \in 1..MaxU + 1}

Numbers == {Num(Q(c)) : c \in -MaxC..MaxC}

\* multipliers and divisors are taken non-zero
NonZero == {Num(Q(c)) : c \in (-MaxC..MaxC) \ {0}}

\* bounds of the comparisons, reaching past the supports
Bounds == {Num(Q(c)) : c \in (-MaxC)..(MaxC + 1)}

\* A comparison, a query or an operator that raised leaves D, X, ideal and
\* nops alone and overwrites op, arg, ev and res, so whatever follows one
\* is reached as well from the state the last successful operator left:
\* the next operator, comparison or query is taken from there (P from the
\* comparison it evaluates).
Holding ==
    /\ op \in {"init", "add", "sub", "mul", "truediv", "radd", "rsub", "rmul",
               "neg"}
    /\ res.err = "none"

\* the distributions the constructors accept (Uniform raises unless a < b)
Constructed == {d \in Distributions : d.kind = "Uniform" => d.a < d.b}

Init ==
    /\ D \in Constructed
    /\ X = RandomVar
    /\ ideal = [m |-> Q(1), b |-> Q(0), div |-> FALSE]
    /\ nops = 0
    /\ op = "init"
    /\ arg = Num(Q(0))
    /\ ev = NoEvent
    /\ cmp = "none"
    /\ res = Ok(Q(0))
    /\ call = NoCall
    /\ heap = NoHeap

\* The comparisons and the queries of f, F and G are taken of ~D and of the
\* variables (~D * m) / d + b, each built by the three operators in turn.
InitHeld ==
    /\ D \in Constructed
    /\ \/ /\ X = RandomVar
          /\ ideal = [m |-> Q(1), b |-> Q(0), div |-> FALSE]
          /\ nops = 0
       \/ \E m \in NonZero, d \in NonZero, b \in Numbers :
              /\ X = as_mapped(as_mapped(as_mapped(RandomVar, "mul", m.v),
                                         "div", d.v),
                               "add", b.v)
              /\ ideal = [m |-> RDiv(m.v, d.v), b |-> b.v, div |-> TRUE]
              /\ nops = 3
    /\ op = "init"
    /\ arg = Num(Q(0))
    /\ ev = NoEvent
    /\ cmp = "none"
    /\ res = Ok(Q(0))
    /\ call = NoCall
    /\ heap = NoHeap

\* an arithmetic operator returned r: the caller holds the new variable
\* (whose fields tell the operand), or keeps the old one when the operator
\* raised on the operand arg
Arith(name, other, r, m, b, usesDiv) ==
    /\ Holding
    /\ nops < MaxOps
    /\ op' = name
    /\ ev' = NoEvent
    /\ cmp' = "none"
    /\ IF r.tag = "rv"
       THEN /\ X' = r.X
            /\ ideal' = [m |-> m, b |-> b, div |-> ideal.div \/ usesDiv]
            /\ arg' = Num(Q(0))
            /\ res' = Ok(Q(0))
            /\ nops' = nops + 1
       ELSE /\ arg' = other
            /\ res' = Raise(r.tag)
            /\ UNCHANGED <<X, ideal, nops>>
    /\ UNCHANGED <<D, call, heap>>

\* X + other
Add ==
    \E other \in Numbers \cup {OtherRV, NoNumber} :
        Arith("add", other,
              binary_op(RandomVar_add(X, other),
                        IF other.tag = "rv"
                        THEN RandomVar_radd(RandomVar, OtherRV)
                        ELSE NotImplemented),
              ideal.m, RPlus(ideal.b, other.v), FALSE)

\* X - other
Sub ==
    \E other \in Numbers \cup {OtherRV, NoNumber} :
        Arith("sub", other, minus(X, other),
              ideal.m, RMinus(ideal.b, other.v), FALSE)

\* X * other
Mul ==
    \E other \in NonZero \cup {OtherRV, NoNumber} :
        Arith("mul", other,
              binary_op(RandomVar_mul(X, other),
                        IF other.tag = "rv"
                        THEN RandomVar_rmul(RandomVar, OtherRV)
                        ELSE NotImplemented),
              RTimes(ideal.m, other.v), RTimes(ideal.b, other.v), FALSE)

\* X / other
TrueDiv ==
    \E other \in NonZero \cup {OtherRV, NoNumber} :
        Arith("truediv", other,
              binary_op(RandomVar_truediv(X, other), NotImplemented),
              IF is_number(other) THEN RDiv(ideal.m, other.v) ELSE ideal.m,
              IF is_number(other) THEN RDiv(ideal.b, other.v) ELSE ideal.b,
              TRUE)

\* other + X, the left operand being no random variable
RAdd ==
    \E other \in Numbers \cup {NoNumber} :
        Arith("radd", other,
              binary_op(NotImplemented, RandomVar_radd(X, other)),
              ideal.m, RPlus(ideal.b, other.v), FALSE)

\* other - X
RSub ==
    \E other \in Numbers \cup {NoNumber} :
        Arith("rsub", other,
              binary_op(NotImplemented, RandomVar_rsub(X, other)),
              RNeg(ideal.m), RMinus(other.v, ideal.b), FALSE)

\* other * X
RMul ==
    \E other \in NonZero \cup {NoNumber} :
        Arith("rmul", other,
              binary_op(NotImplemented, RandomVar_rmul(X, other)),
              RTimes(ideal.m, other.v), RTimes(ideal.b, other.v), FALSE)

\* -X
Neg ==
    Arith("neg", Num(Q(-1)), RandomVar_neg(X),
          RNeg(ideal.m), RNeg(ideal.b), FALSE)

\* a comparison returned r: an event, or an exception
Compare(name, other, r) ==
    /\ Holding
    /\ op' = name
    /\ arg' = other
    /\ ev' = r.e
    /\ cmp' = name
    /\ res' = IF r.tag = "event" THEN Ok(Q(0)) ELSE Raise(r.tag)
    /\ UNCHANGED <<D, X, ideal, nops, call, heap>>

Eq == \E other \in Bounds \cup {OtherRV} :
          Compare("eq", other, RandomVar_eq(X, other))
Ne == \E other \in Bounds \cup {OtherRV} :
          Compare("ne", other, RandomVar_ne(X, other))
Lt == \E other \in Bounds \cup {OtherRV, NoNumber} :
          Compare("lt", other, RandomVar_lt(D, X, other))
Le == \E other \in Bounds \cup {OtherRV, NoNumber} :
          Compare("le", other, RandomVar_le(X, other))
Gt == \E other \in Bounds \cup {OtherRV, NoNumber} :
          Compare("gt", other, RandomVar_gt(X, other))
Ge == \E other \in Bounds \cup {OtherRV, NoNumber} :
          Compare("ge", other, RandomVar_ge(D, X, other))

\* operands that are no numbers
NonNumbers == {OtherRV, NoNumber}

\* the ordering comparisons of a variable built by arithmetic with an
\* operand that is no number
LtOther == \E other \in NonNumbers :
               Compare("lt", other, RandomVar_lt(D, X, other))
LeOther == \E other \in NonNumbers :
               Compare("le", other, RandomVar_le(X, other))
GtOther == \E other \in NonNumbers :
               Compare("gt", other, RandomVar_gt(X, other))
GeOther == \E other \in NonNumbers :
               Compare("ge", other, RandomVar_ge(D, X, other))

\* P[event] for the event the last comparison built
P ==
    /\ ev.type # "none"
    /\ op = cmp
    /\ op' = "P"
    /\ res' = Event_p(D, ev)
    /\ UNCHANGED <<D, X, ideal, nops, arg, ev, cmp, call, heap>>

\* a query of the variable returned r
Query(name, other, r) ==
    /\ Holding
    /\ op' = name
    /\ arg' = other
    /\ ev' = NoEvent
    /\ cmp' = "none"
    /\ res' = r
    /\ UNCHANGED <<D, X, ideal, nops, call, heap>>

\* E[X]
E == Query("E", Num(Q(0)), Ok(mean(D, X)))

\* Var[X]
Var == Query("Var", Num(Q(0)), Ok(variance(D, X)))

\* the second argument of Cov and Corr: X itself, or another variable Y,
\* taken to be a second ~D
SameRV == [tag |-> "self", v |-> Q(0)]

\* Cov(X, Y): the variance when X is Y, and 0 otherwise
Cov_value(d, x, other) ==
    IF other.tag = "self" THEN Ok(variance(d, x)) ELSE Ok(Q(0))

\* Corr(X, Y): 1 when X is Y, and otherwise Cov(X, Y) divided by
\* Std(X) * Std(Y): a division by zero when one of the variances is 0,
\* and else a zero that the division leaves zero
Corr_value(d, x, other) ==
    IF other.tag = "self" THEN Ok(Q(1))
    ELSE IF variance(d, x) = Q(0) \/ variance(d, RandomVar) = Q(0)
         THEN Raise("ZeroDivisionError")
    ELSE Ok(Cov_value(d, x, other).v)

\* Cov[X, Y]
Cov == \E other \in {OtherRV, SameRV} :
           Query("Cov", other, Cov_value(D, X, other))

\* Corr[X, Y]
Corr == \E other \in {OtherRV, SameRV} :
            Query("Corr", other, Corr_value(D, X, other))

\* X.f(x), X.F(x) at an integer x
Callf == \E other \in Bounds : Query("f", other, RandomVar_f(D, X, other.v))
CallF == \E other \in Bounds : Query("F", other, RandomVar_F(D, X, other.v))

\* other in X: 1 for True, 0 for False
Contains ==
    \E other \in Bounds :
        Query("in", other,
              Ok(IF RandomVar_contains(D, X, other.v) THEN Q(1) ELSE Q(0)))

\* X.G(y), y also just outside [0, 1]
CallG ==
    \E k \in -1..ProbDen + 1 :
        Query("G", Num(Rat(k, ProbDen)), RandomVar_G(D, X, Rat(k, ProbDen)))

\* the arithmetic of random variables, with the mean, the variance, the
\* covariance and the correlation of what it built
Next ==
    \/ Add \/ Sub \/ Mul \/ TrueDiv \/ RAdd \/ RSub \/ RMul \/ Neg
    \/ E \/ Var \/ Cov \/ Corr
    \/ LtOther \/ LeOther \/ GtOther \/ GeOther

Spec == Init /\ [][Next]_vars

\* the comparisons, the probabilities of their events and the functions of
\* a held variable
NextQueries ==
    \/ Eq \/ Ne \/ Lt \/ Le \/ Gt \/ Ge
    \/ P \/ Callf \/ CallF \/ CallG \/ Contains

SpecQueries == InitHeld /\ [][NextQueries]_vars

\* optional bounds of an interval event
OptBounds == {None} \cup {Some(c.v) : c \in Bounds}

\* The events are built of ~D and of the variables ~D * m.
InitEvents ==
    /\ D \in Constructed
    /\ \/ /\ X = RandomVar
          /\ ideal = [m |-> Q(1), b |-> Q(0), div |-> FALSE]
          /\ nops = 0
       \/ \E m \in NonZero :
              /\ X = as_mapped(RandomVar, "mul", m.v)
              /\ ideal = [m |-> m.v, b |-> Q(0), div |-> FALSE]
              /\ nops = 1
    /\ op = "init"
    /\ arg = Num(Q(0))
    /\ ev = NoEvent
    /\ cmp = "none"
    /\ res = Ok(Q(0))
    /\ call = NoCall
    /\ heap = NoHeap

\* an event, or the exception raised instead, is what the caller holds
\* after the call name
Yield(name, other, r) ==
    /\ op' = name
    /\ arg' = other
    /\ ev' = r.e
    /\ cmp' = name
    /\ res' = IF r.tag = "event" THEN Ok(Q(0)) ELSE Raise(r.tag)
    /\ UNCHANGED <<D, X, ideal, nops, call, heap>>

\* EventInterval(X, a, b, _inv)
NewInterval ==
    /\ Holding
    /\ \E a \in OptBounds, b \in OptBounds, inv \in BOOLEAN :
           Yield("EventInterval", Num(Q(0)), EventInterval_init(X, a, b, inv))

\* ~event, of an event just built or just inverted
Invert ==
    /\ ev.type # "none"
    /\ op \in {"EventInterval", "eq", "ne", "invert"}
    /\ Yield("invert", Num(Q(0)), Built(Event_invert(ev)))

\* event | other, of an event just built
Or ==
    /\ ev.type # "none"
    /\ op = "EventInterval"
    /\ \E other \in {OtherEvent, NoNumber} :
           Yield("or", other, binary_op(Event_or(ev, other), NotImplemented))

NextEvents == NewInterval \/ Eq \/ Ne \/ Invert \/ Or \/ P

SpecEvents == InitEvents /\ [][NextEvents]_vars

\* the integers a function is evaluated at, reaching past the supports
Points == (-(2 * MaxU) - 1)..(2 * (MaxN + MaxU) + 1)

\* a function of hall.analysis or a constructor was called: call holds the
\* arguments and what was returned, res the value or the exception
Call(fn) ==
    /\ Holding
    /\ op' = fn
    /\ UNCHANGED <<D, X, ideal, nops, arg, ev, cmp, heap>>

\* convolve(D, g).f(n), and the support of convolve(D, g)
Convolve ==
    \E g \in Constructed, n \in Points :
        /\ Call("convolve")
        /\ call' = [fn |-> "convolve", g |-> g, n |-> n,
                    support |-> convolve(D, g, n).support]
        /\ res' = Ok(convolve(D, g, n).value)

\* real intervals with integer endpoints
Intervals == {Interval(Q(a), Q(b), TRUE) : a, b \in -MaxC..MaxC}

\* I & J
And ==
    \E I \in Intervals, J \in Intervals :
        /\ Call("and")
        /\ call' = [fn |-> "and", I |-> I, J |-> J,
                    result |-> Interval_and(I, J)]
        /\ res' = Ok(Q(0))

\* I > x and I < x for a real number x
IntervalGt ==
    \E I \in Intervals, c \in -MaxC..MaxC :
        /\ Call("Interval_gt")
        /\ call' = [fn |-> "Interval_gt", I |-> I, x |-> Q(c),
                    result |-> Interval_gt(I, Q(c))]
        /\ res' = Ok(Q(0))
IntervalLt ==
    \E I \in Intervals, c \in -MaxC..MaxC :
        /\ Call("Interval_lt")
        /\ call' = [fn |-> "Interval_lt", I |-> I, x |-> Q(c),
                    result |-> Interval_lt(I, Q(c))]
        /\ res' = Ok(Q(0))

\* arguments given to the constructors: integers and floats, valid or not
IntArgs   == {IntArg(k) : k \in -1..(MaxN + 1)}
FloatArgs == {FloatArg(Rat(k, ProbDen)) : k \in -1..(ProbDen + 1)}

\* Binomial(n, p)
NewBinomial ==
    \E n \in IntArgs \cup FloatArgs, p \in IntArgs \cup FloatArgs :
        /\ Call("Binomial")
        /\ call' = [fn |-> "Binomial", n |-> n, p |-> p]
        /\ res' = Binomial_init(n, p)

\* Bernoulli(p)
NewBernoulli ==
    \E p \in IntArgs \cup FloatArgs :
        /\ Call("Bernoulli")
        /\ call' = [fn |-> "Bernoulli", p |-> p]
        /\ res' = Bernoulli_init(p)

\* Uniform(a, b)
NewUniform ==
    \E a \in IntArgs \cup FloatArgs, b \in IntArgs \cup FloatArgs :
        /\ Call("Uniform")
        /\ call' = [fn |-> "Uniform", a |-> a, b |-> b]
        /\ res' = Uniform_init(a, b)

\* Normal(mu, sigma)
NewNormal ==
    \E mu \in IntArgs \cup FloatArgs, sigma \in IntArgs \cup FloatArgs :
        /\ Call("Normal")
        /\ call' = [fn |-> "Normal", mu |-> mu, sigma |-> sigma]
        /\ res' = Normal_init(mu, sigma)

NextAnalysis ==
    \/ Convolve \/ And \/ IntervalGt \/ IntervalLt
    \/ NewBinomial \/ NewBernoulli \/ NewUniform \/ NewNormal

SpecAnalysis == Init /\ [][NextAnalysis]_vars

\* Objects.  A random variable object is its affine state X and arg, the
\* identity of the RandomVar object it wraps, which holds the reference to
\* the distribution (a RandomVar object wraps itself).
Object(x, a) == [X |-> x, arg |-> a]

\* a faulty allocation: the operand is overwritten and returned
allocate_in_place(h, y, x) == [h EXCEPT ![y].X = x]

\* MappedRandomVar(self, **kwargs) of RandomVar._as_mapped and
\* MappedRandomVar(self.__arg__, **kwargs) of MappedRandomVar._as_mapped:
\* a new object of state x is allocated, object y is the operand
allocate(h, y, x) ==
    Append(h, Object(x, IF h[y].X.mapped THEN h[y].arg ELSE y))

\* the number the operators are applied with
Scalar == Num(Q(MaxC))

\* Of ~D, object 1, further variables are built.
InitObjects ==
    /\ D \in Constructed
    /\ X = RandomVar
    /\ ideal = [m |-> Q(1), b |-> Q(0), div |-> FALSE]
    /\ nops = 0
    /\ op = "init"
    /\ arg = Num(Q(0))
    /\ ev = NoEvent
    /\ cmp = "none"
    /\ res = Ok(Q(0))
    /\ call = NoCall
    /\ heap = <<Object(RandomVar, 1)>>

\* an arithmetic operator applied to object y returned the variable r.X:
\* call tells the operand and the object returned
Operate(name, y, r) ==
    /\ Holding
    /\ Len(heap) <= MaxOps
    /\ r.tag = "rv"
    /\ op' = name
    /\ heap' = allocate(heap, y, r.X)
    /\ call' = [fn |-> name, self |-> y, result |-> Len(heap')]
    /\ res' = Ok(Q(0))
    /\ ev' = NoEvent
    /\ cmp' = "none"
    /\ UNCHANGED <<D, X, ideal, nops, arg>>

\* Y + c, Y - c, Y * c, Y / c, -Y for an object Y
AddTo == \E y \in 1..Len(heap) :
             Operate("add", y, RandomVar_add(heap[y].X, Scalar))
SubOf == \E y \in 1..Len(heap) :
             Operate("sub", y, RandomVar_sub(heap[y].X, Scalar))
MulOf == \E y \in 1..Len(heap) :
             Operate("mul", y, RandomVar_mul(heap[y].X, Scalar))
DivOf == \E y \in 1..Len(heap) :
             Operate("truediv", y, RandomVar_truediv(heap[y].X, Scalar))
NegOf == \E y \in 1..Len(heap) :
             Operate("neg", y, RandomVar_neg(heap[y].X))

\* a comparison of object y with a number returned the event r.e, which
\* refers to y: no variable is allocated
Test(name, y, r) ==
    /\ Holding
    /\ r.tag = "event"
    /\ op' = name
    /\ cmp' = name
    /\ ev' = r.e
    /\ call' = [fn |-> name, self |-> y, result |-> 0]
    /\ res' = Ok(Q(0))
    /\ UNCHANGED <<D, X, ideal, nops, arg, heap>>

\* Y == c, Y != c, Y < c, Y <= c, Y > c, Y >= c for an object Y
TestEq == \E y \in 1..Len(heap) :
              Test("eq", y, RandomVar_eq(heap[y].X, Scalar))
TestNe == \E y \in 1..Len(heap) :
              Test("ne", y, RandomVar_ne(heap[y].X, Scalar))
TestLt == \E y \in 1..Len(heap) :
              Test("lt", y, RandomVar_lt(D, heap[y].X, Scalar))
TestLe == \E y \in 1..Len(heap) :
              Test("le", y, RandomVar_le(heap[y].X, Scalar))
TestGt == \E y \in 1..Len(heap) :
              Test("gt", y, RandomVar_gt(heap[y].X, Scalar))
TestGe == \E y \in 1..Len(heap) :
              Test("ge", y, RandomVar_ge(D, heap[y].X, Scalar))

NextObjects ==
    \/ AddTo \/ SubOf \/ MulOf \/ DivOf \/ NegOf
    \/ TestEq \/ TestNe \/ TestLt \/ TestLe \/ TestGt \/ TestGe

SpecObjects == InitObjects /\ [][NextObjects]_vars

\* the samples mpmath.rand() draws from [0, 1)
Draws == {Rat(k, 2 * ProbDen) : k \in 0..(2 * ProbDen - 1)}

\* a coercion of the event just built returned r; u is the sample drawn,
\* kept as the operand
Coerce(name, u, r) ==
    /\ ev.type # "none"
    /\ op = cmp
    /\ op' = name
    /\ arg' = [tag |-> "num", v |-> u]
    /\ res' = r
    /\ UNCHANGED <<D, X, ideal, nops, ev, cmp, call, heap>>

\* bool(event), int(event)
ToBool == \E u \in Draws : Coerce("bool", u, Event_bool(D, ev, u))
ToInt  == \E u \in Draws : Coerce("int", u, Event_int(D, ev, u))

\* float(event): nothing is drawn, the operand stays
ToFloat ==
    /\ ev.type # "none"
    /\ op = cmp
    /\ op' = "float"
    /\ res' = Event_float(D, ev)
    /\ UNCHANGED <<D, X, ideal, nops, arg, ev, cmp, call, heap>>

\* the coercions of the events that the comparisons of ~D and ~D * m build
NextCoercions == Eq \/ Ne \/ Le \/ Gt \/ ToBool \/ ToInt \/ ToFloat

SpecCoercions == InitEvents /\ [][NextCoercions]_vars

\* the continuous distributions: Normal(mu, sigma) with sigma > 0
Normals ==
    {Normal(Q(mu), Rat(k, ProbDen)) : mu \in -MaxC..MaxC, k \in 1..ProbDen + 1}

\* P[X] of stats.py for a variable x: P[X != 0]
P_of_variable(d, x) == Event_p(d, EventEq(x, Q(0), TRUE))

\* The equality events are built of ~D and ~D * m, D discrete or continuous.
InitEquality ==
    /\ \/ D \in Constructed
       \/ D \in Normals
    /\ \/ /\ X = RandomVar
          /\ ideal = [m |-> Q(1), b |-> Q(0), div |-> FALSE]
          /\ nops = 0
       \/ \E m \in NonZero :
              /\ X = as_mapped(RandomVar, "mul", m.v)
              /\ ideal = [m |-> m.v, b |-> Q(0), div |-> FALSE]
              /\ nops = 1
    /\ op = "init"
    /\ arg = Num(Q(0))
    /\ ev = NoEvent
    /\ cmp = "none"
    /\ res = Ok(Q(0))
    /\ call = NoCall
    /\ heap = NoHeap

\* P[X]
PX ==
    /\ Holding
    /\ op' = "PX"
    /\ ev' = EventEq(X, Q(0), TRUE)
    /\ cmp' = "none"
    /\ res' = P_of_variable(D, X)
    /\ UNCHANGED <<D, X, ideal, nops, arg, call, heap>>

\* the equality events, their negations and their probabilities
NextEquality == Eq \/ Ne \/ Invert \/ P \/ PX

SpecEquality == InitEquality /\ [][NextEquality]_vars

---------------------------------------------------------------------------
(* Properties *)

\* P was asked of the event that the comparison c of X with a number built
Asked(c) == op = "P" /\ cmp = c /\ arg.tag = "num"

\* the probability of event e, a number when its evaluation did not raise
Prob(e) == Event_p(D, e)

\* C1: the variable built by the arithmetic operators (add, sub, mul, neg
\* and their reflections) that denote m * X + b has variance m * m * Var[X]
C1_VarianceAffine ==
    (op = "Var" /\ ~ideal.div) =>
        res = Ok(RTimes(RTimes(ideal.m, ideal.m), variance(D, RandomVar)))

\* C2: the variable built by the arithmetic operators (add, sub, mul, neg
\* and their reflections) that denote m * X + b has mean m * E[X] + b
C2_MeanAffine ==
    (op = "E" /\ ~ideal.div) =>
        res = Ok(RPlus(RTimes(ideal.m, mean(D, RandomVar)), ideal.b))

\* C2 witness: E taken of 1 - 2 * X (a multiplication, then a reflected
\* subtraction) over a distribution of non-zero mean
C2_Witness ==
    /\ op = "E"
    /\ ~ideal.div
    /\ X.mapped
    /\ ideal.m = Q(-2)
    /\ ideal.b = Q(1)
    /\ mean(D, RandomVar) # Q(0)

\* C3: for discrete X and integer c, P[X >= c] is 1 - F(c - 1), so that
\* P[X >= c] + P[X <= c - 1] = 1 and P[X >= c] = P[X > c] + P[X == c]
C3_GeIsGtPredecessor ==
    Asked("ge") =>
        /\ res.err = "none"
        /\ res.v = RMinus(Q(1), RandomVar_F(D, X, RMinus(arg.v, Q(1))).v)
        /\ RPlus(res.v, Prob(RandomVar_le(X, Num(RMinus(arg.v, Q(1)))).e).v)
               = Q(1)
        /\ res.v = RPlus(Prob(RandomVar_gt(X, arg).e).v,
                         Prob(RandomVar_eq(X, arg).e).v)

\* C4: for discrete X, direct or mapped, and integer c, P[X < c] is
\* P[X <= c - 1]
C4_LtIsLePredecessor ==
    Asked("lt") =>
        res = Prob(RandomVar_le(X, Num(RMinus(arg.v, Q(1)))).e)

C6_EqNeComplement ==
    /\ Asked("eq") =>
           /\ res.err = "none"
           /\ Prob(RandomVar_ne(X, arg).e).err = "none"
           /\ RPlus(res.v, Prob(RandomVar_ne(X, arg).e).v) = Q(1)
    /\ Asked("ne") =>
           /\ res.err = "none"
           /\ RPlus(Prob(RandomVar_eq(X, arg).e).v, res.v) = Q(1)
    /\ (D.kind = "Bernoulli" /\ ~X.mapped) =>
           /\ (Asked("eq") /\ arg.v = Q(1)) => res.v = D.p
           /\ (Asked("eq") /\ arg.v = Q(0)) => res.v = RMinus(Q(1), D.p)
           /\ (Asked("ne") /\ arg.v = Q(0)) => res.v = D.p

\* C6 witness: P[X != 0] asked of ~Bernoulli(p) with 0 < p < 1
C6_Witness ==
    /\ Asked("ne")
    /\ arg.v = Q(0)
    /\ D.kind = "Bernoulli"
    /\ ~X.mapped
    /\ RLt(Q(0), D.p)
    /\ RLt(D.p, Q(1))
    /\ res = Ok(D.p)

\* C7: X == Y and X != Y between two random variables return the equality
\* events (X - Y) == 0 and (X - Y) != 0, and do not raise
C7_EqOfVariables ==
    (op \in {"eq", "ne"} /\ arg.tag = "rv") =>
        /\ res.err = "none"
        /\ ev.type = "eq"
        /\ ev.x = Some(Q(0))
        /\ ev.inv = (op = "ne")

\* C8: for D with support [a, b]: D.F(x) = 0 for every integer x < a,
\* D.F(b) = 1 and D.F(x) = 1 for every integer x > b
C8_CdfOutsideSupport ==
    (op = "F" /\ ~X.mapped) =>
        /\ RLt(arg.v, Distribution_support(D).a) => res = Ok(Q(0))
        /\ RLe(Distribution_support(D).b, arg.v) => res = Ok(Q(1))

\* C9: 2 * E[X] = a + b for X = ~Uniform(a, b)
C9_UniformMean ==
    (op = "E" /\ ~X.mapped /\ D.kind = "Uniform") =>
        RTimes(Q(2), res.v) = Q(D.a + D.b)

\* C10: for 0 < p < 1, D.G(p) is a point of the support and the smallest
\* x with D.F(x) >= p:  D.F(D.G(p) - 1) < p <= D.F(D.G(p))
C10_QuantileIsGeneralizedInverse ==
    (op = "G" /\ ~X.mapped /\ RLt(Q(0), arg.v) /\ RLt(arg.v, Q(1))) =>
        /\ res.err = "none"
        /\ Interval_contains(Distribution_support(D), res.v)
        /\ RLe(arg.v, Distribution_F(D, res.v[1]))
        /\ RLt(Distribution_F(D, res.v[1] - 1), arg.v)

\* C11: the CDF of X, direct or mapped with a non-zero multiplier of either
\* sign, is non-decreasing: P[X <= c1] <= P[X <= c2] for c1 <= c2, and
\* P[X < c1] <= P[X <= c2] for c1 <= c2 + 1
C11_CdfMonotone ==
    /\ Asked("le") =>
           \A c2 \in Bounds :
               RLe(arg.v, c2.v) =>
                   RLe(res.v, Prob(RandomVar_le(X, c2).e).v)
    /\ Asked("lt") =>
           \A c2 \in Bounds :
               RLe(arg.v, RPlus(c2.v, Q(1))) =>
                   RLe(res.v, Prob(RandomVar_le(X, c2).e).v)

\* C12: whenever an interval event e (two-sided or one-sided, inverted or
\* not) is negated and e.p is a value, (~e).p is the value 1 - e.p
C12_IntervalNegation ==
    [][(op' = "invert" /\ ev.type = "interval"
            /\ Prob(ev).err = "none") =>
           /\ ev' = EventInterval_invert(ev)
           /\ Event_p(D', ev').err = "none"
           /\ Event_p(D', ev').v = RMinus(Q(1), Prob(ev).v)]_vars

\* C12 witness: P asked of the negation of a two-sided event of a mapped
\* variable, strictly between 0 and 1
C12_Witness ==
    /\ op = "P"
    /\ cmp = "invert"
    /\ X.mapped
    /\ ev.a # None
    /\ ev.b # None
    /\ ev.inv
    /\ res.err = "none"
    /\ RLt(Q(0), res.v)
    /\ RLt(res.v, Q(1))

\* C13: Cov[X, Y] and Corr[X, Y] of two distinct random variables fail
\* with a not-implemented error and return no number
C13_CovCorrNotImplemented ==
    (op \in {"Cov", "Corr"} /\ arg.tag = "rv") =>
        res.err = "NotImplementedError"

\* C14: A | B of two events fails with a not-implemented error and yields
\* no event
C14_ConditionalNotImplemented ==
    (op = "or" /\ arg.tag = "event") =>
        /\ res.err \in {"NotImplementedError", "TypeError"}
        /\ ev = NoEvent

\* C15: convolve(f, g) has the support [fa + ga, fb + gb], and its value at
\* every integer n of that support is the sum of f(n - m) * g(m) over all
\* m of the support of g (f being 0 outside its support)
C15_ConvolutionFullSum ==
    (op = "convolve") =>
        /\ call.support =
               Interval(RPlus(Distribution_support(D).a,
                              Distribution_support(call.g).a),
                        RPlus(Distribution_support(D).b,
                              Distribution_support(call.g).b), TRUE)
        /\ Interval_contains(call.support, Q(call.n)) =>
               res = Ok(nsum(D, call.g, call.n,
                             Distribution_support(call.g).a[1],
                             Distribution_support(call.g).b[1]))

\* numbers tested for membership: the integers and the halves between them
Halves == {Rat(k, 2) : k \in (-(2 * MaxC) - 2)..(2 * MaxC + 2)}

\* C16: I & J is None exactly when no number lies in both I and J, and
\* otherwise the interval [max(I.a, J.a), min(I.b, J.b)], which holds x iff
\* both I and J hold x
C16_Intersection ==
    (op = "and") =>
        /\ (call.result = <<>>) <=>
               ~\E x \in Halves : /\ Interval_contains(call.I, x)
                                   /\ Interval_contains(call.J, x)
        /\ (call.result # <<>>) =>
               /\ call.result[1].a =
                      (IF RLt(call.I.a, call.J.a) THEN call.J.a ELSE call.I.a)
               /\ call.result[1].b =
                      (IF RLt(call.I.b, call.J.b) THEN call.I.b ELSE call.J.b)
               /\ \A x \in Halves :
                      Interval_contains(call.result[1], x) <=>
                          /\ Interval_contains(call.I, x)
                          /\ Interval_contains(call.J, x)

\* C16 witness: two intervals that overlap in more than a point, neither
\* within the other
C16_Witness ==
    /\ op = "and"
    /\ call.result # <<>>
    /\ RLt(call.I.a, call.J.a)
    /\ RLt(call.J.a, call.I.b)
    /\ RLt(call.I.b, call.J.b)
    /\ call.result[1] = Interval(call.J.a, call.I.b, TRUE)

\* the value F(b) - F(a), or its complement, that the probability of the
\* interval event e is computed to be (F(b) is 1 and F(a) is 0 for an
\* absent bound)
Computed(e) ==
    LET Fb == IF e.b = None THEN Q(1) ELSE RandomVar_F(D, e.X, e.b[1]).v
        Fa == IF e.a = None THEN Q(0) ELSE RandomVar_F(D, e.X, e.a[1]).v
    IN  IF e.inv THEN RMinus(Q(1), RMinus(Fb, Fa)) ELSE RMinus(Fb, Fa)

\* C17: a probability read of an interval event lies in [0, 1], and the
\* read fails with an assertion error when the computed value does not
C17_IntervalProbabilityChecked ==
    (op = "P" /\ ev.type = "interval") =>
        /\ res.err = "none" => (RLe(Q(0), res.v) /\ RLe(res.v, Q(1)))
        /\ (RLt(Computed(ev), Q(0)) \/ RLt(Q(1), Computed(ev))) =>
               res.err = "AssertionError"

\* C17 witness: P read of a two-sided event with a > b, whose computed
\* value is negative, fails with the assertion error
C17_Witness ==
    /\ op = "P"
    /\ ev.type = "interval"
    /\ ev.a # None
    /\ ev.b # None
    /\ ~ev.inv
    /\ RLt(ev.b[1], ev.a[1])
    /\ RLt(Computed(ev), Q(0))
    /\ res.err = "AssertionError"

\* C18: an arithmetic operator (+, -, *, /, and the reflected c + X, c - X,
\* c * X) or an ordering comparison (<, <=, >, >=) of a random variable
\* with an operand that is no number raises TypeError; the caller gets no
\* variable and no event
C18_TypeErrorOnNonNumber ==
    [][(arg' \in NonNumbers
            /\ op' \in {"add", "sub", "mul", "truediv", "radd", "rsub",
                        "rmul", "lt", "le", "gt", "ge"}) =>
           /\ res' = Raise("TypeError")
           /\ X' = X
           /\ ev' = NoEvent]_vars

\* C18 witness: X >= other, of a mapped X and an object that is no number,
\* has raised TypeError
C18_Witness ==
    /\ op = "ge"
    /\ arg = NoNumber
    /\ X.mapped
    /\ res = Raise("TypeError")
    /\ ev = NoEvent

\* the endpoints of the support of D carried through the affine map of X
Lower == RPlus(RTimes(ideal.m, Distribution_support(D).a), ideal.b)
Upper == RPlus(RTimes(ideal.m, Distribution_support(D).b), ideal.b)

C20_ConstructionValidated ==
    /\ (op = "Binomial") =>
           /\ (res.err = "none") <=>
                  /\ call.n.type = "int"
                  /\ RLe(Q(0), call.n.v)
                  /\ RLe(Q(0), call.p.v)
                  /\ RLe(call.p.v, Q(1))
           /\ (res.err = "none") =>
                  /\ Q(res.v.n) = call.n.v
                  /\ res.v.n >= 0
                  /\ res.v.p = call.p.v
                  /\ RLe(Q(0), res.v.p) /\ RLe(res.v.p, Q(1))
    /\ (op = "Uniform") =>
           /\ (res.err = "none") <=>
                  /\ call.a.type = "int"
                  /\ call.b.type = "int"
                  /\ RLt(call.a.v, call.b.v)
           /\ (res.err = "none") =>
                  /\ Q(res.v.a) = call.a.v
                  /\ Q(res.v.b) = call.b.v
                  /\ res.v.a < res.v.b
    /\ (op = "Normal" /\ RLt(call.sigma.v, Q(0))) => res.err # "none"
    /\ (op \in {"Binomial", "Uniform", "Normal"} /\ res.err # "none") =>
           res.v = Q(0)

\* C20 witness: Binomial(n, p) with a valid n and p > 1 has raised
C20_Witness ==
    /\ op = "Binomial"
    /\ call.n.type = "int"
    /\ RLe(Q(0), call.n.v)
    /\ RLt(Q(1), call.p.v)
    /\ res = Raise("ValueError")

\* C21: the mean of a variable built by a sequence of operators with a
\* division among them (every operator reaches _as_mapped as an add, a
\* mul or a div; divisors are non-zero) is what the same operations, in
\* the same order, make of E[X]: (X / c1) / c2 has mean E[X] / (c1 * c2)
C21_DivisionComposes ==
    (op = "E" /\ ideal.div) =>
        res = Ok(RPlus(RTimes(ideal.m, mean(D, RandomVar)), ideal.b))

\* C22: an arithmetic operator or a comparison applied to the object Y
\* leaves the addend, multiplier and divisor of Y and the object Y wraps
\* (as those of every other object) as they were; an arithmetic operator
\* returns an object that did not exist before, wrapping what Y wraps
C22_OperandsUnchanged ==
    [][/\ \A i \in 1..Len(heap) : heap'[i] = heap[i]
       /\ heap'[call'.self] = heap[call'.self]
       /\ call'.result # 0 =>
              /\ call'.result \notin 1..Len(heap)
              /\ call'.result \in 1..Len(heap')
              /\ heap'[call'.result].arg = heap[call'.self].arg
       /\ call'.result = 0 <=> op' \in {"eq", "ne", "lt", "le", "gt", "ge"}
      ]_vars

\* C22 witness: the variable ~D + c, object 2, was divided by c, which
\* returned object 3, the variable ~D / c + 1
C22_Witness ==
    /\ call.fn = "truediv"
    /\ call.self = 2
    /\ call.result = 3
    /\ Len(heap) = 3
    /\ heap[2].X = MappedRandomVar(Scalar.v, Q(1), Q(1))
    /\ heap[3].X = MappedRandomVar(Q(1), Q(1), Scalar.v)

\* C23: bool(e) is u < p for the sample u of [0, 1) it draws, so never
\* true when p = 0 and always true when p = 1; int(e) is 1 when bool(e) of
\* the same draw is true and 0 otherwise; float(e) is p, and draws nothing
\* (the operand of the comparison is still the last operand)
C23_Coercions ==
    /\ (op = "bool" /\ Prob(ev).err = "none") =>
           /\ res.err = "none"
           /\ res.v = RLt(arg.v, Prob(ev).v)
           /\ Prob(ev).v = Q(0) => res.v = FALSE
           /\ Prob(ev).v = Q(1) => res.v = TRUE
    /\ (op = "int" /\ Prob(ev).err = "none") =>
           /\ res.err = "none"
           /\ res.v \in {Q(0), Q(1)}
           /\ res.v = Q(1) <=> Event_bool(D, ev, arg.v).v
    /\ (op = "float" /\ Prob(ev).err = "none") =>
           /\ res = Ok(Prob(ev).v)
           /\ arg \in Bounds \cup {OtherRV}
    /\ (op \in {"bool", "int", "float"} /\ Prob(ev).err # "none") =>
           res = Prob(ev)

\* C23 witness: bool of an event of probability 1 with the sample 0, which
\* is true
C23_Witness ==
    /\ op = "bool"
    /\ Prob(ev) = Ok(Q(1))
    /\ arg.v = Q(0)
    /\ res = Ok(TRUE)

\* C24: an interval event built by the constructor or by a negation has
\* one of its bounds a, b set, the constructor given neither raises
\* ValueError and leaves no event, and the negation of a negated event
\* (interval or equality) has the fields X, a, b, x and inverted of the
\* event negated first
C24_BoundsAndDoubleNegation ==
    [][/\ ev'.type = "interval" => (ev'.a # None \/ ev'.b # None)
       /\ op' = "EventInterval" =>
              /\ \A inv \in BOOLEAN :
                     EventInterval_init(X, None, None, inv) = ValueError
              /\ res'.err \in {"none", "ValueError"}
              /\ res'.err = "ValueError" <=> ev' = NoEvent
       /\ op' = "invert" =>
              /\ ev' = Event_invert(ev)
              /\ Event_invert(ev') = ev
      ]_vars

\* C24 witness: a negation returned the inverted one-sided event with the
\* upper bound b only
C24_Witness ==
    /\ op = "invert"
    /\ ev.type = "interval"
    /\ ev.a = None
    /\ ev.b # None
    /\ ev.inv

\* C25: for a real interval I and a real number x, I > x (also what x < I
\* evaluates) is true iff I.a > x, and I < x is true iff I.b < x
C25_IntervalGreater ==
    /\ op = "Interval_gt" => (call.result <=> RLt(call.x, call.I.a))
    /\ op = "Interval_lt" => (call.result <=> RLt(call.I.b, call.x))

\* the sum of P[Y == y] over the integers y of lo..hi, Y being x over d
RECURSIVE TotalMass(_, _, _, _)
TotalMass(d, x, lo, hi) ==
    IF hi < lo THEN Q(0)
    ELSE RPlus(EventEq_p(d, EventEq(x, Q(lo), FALSE)).v,
               TotalMass(d, x, lo + 1, hi))

\* C26: for Y = m * X + b with an integer m, |m| >= 2, and an integer b,
\* P[Y == y] is 0 at every integer y with y - b no multiple of m, and the
\* P[Y == y] of the integers y of the support of Y add up to 1
C26_MassOnAttainableValues ==
    (Asked("eq") /\ X.mapped /\ X.div = Q(1) /\ Abs(X.mul[1]) >= 2) =>
        /\ (arg.v[1] - X.add[1]) % Abs(X.mul[1]) # 0 => res = Ok(Q(0))
        /\ TotalMass(D, X, support(D, X).a[1], support(D, X).b[1]) = Q(1)

\* C27: the probability read of an equality event, over a discrete or a
\* continuous variable, is 1 minus the probability of its negation; for a
\* continuous X, P[X != x] is 1 and P[X], read as P[X != 0], is 1
C27_EqualityNegation ==
    /\ (op = "P" /\ ev.type = "eq" /\ res.err = "none") =>
           res.v = RMinus(Q(1), Prob(Event_invert(ev)).v)
    /\ (op = "P" /\ ev.type = "eq" /\ ev.inv /\ ~discrete(D, ev.X)) =>
           res = Ok(Q(1))
    /\ (op = "PX" /\ ~discrete(D, X)) => res = Ok(Q(1))

====
